---- MODULE Spec2Model ----
(***************************************************************************)
(* A model of termsweeper: the minefield (src/src/game.rs: Field, Cell),   *)
(* the game session (Game) and the panel painting (src/src/tui.rs).        *)
(*                                                                         *)
(* Positions are (row, col) pairs counted from 0 as in the source; the     *)
(* board is a sequence of rows (Vec<Vec<Cell>>), so cell (r, c) is         *)
(* board[r + 1][c + 1].                                                    *)
(***************************************************************************)
EXTENDS Integers, Sequences, FiniteSets, TLC

VARIABLES
    size,           \* Field::new's argument size = (rows, cols)
    mines,          \* Field::new's argument mines
    board,          \* Field.board
    placed_mines,   \* Field::new's local placed_mines
    pc,             \* "new" | "gen" | "none" | "ready" | "cascade" | "dropped"
    check,          \* clear_cell's work stack (top = last element)
    op,             \* the Field operation called last
    pos,            \* its argument
    result,         \* its return value
    pre,            \* the board when it was called
    repeated,       \* it repeats the call before it, which had succeeded
    main_pc,        \* main's position: "field" | "render" | "read" | "handle" | "quit" | "exit" | "panic"
    cursor,         \* Game.cursor = (x, y)
    terminal_size,  \* Game.terminal_size = (width, height)
    game_ended,     \* Game.game_ended
    closed,         \* Game.closed
    alt_screen,     \* the terminal is in alternate-screen mode
    leaves,         \* LeaveAlternateScreen commands issued
    event,          \* the input event handled since the last redraw
    buffer,         \* the line buffer a panel is painted into (a row is a sequence of characters)
    prefill,        \* what every row of the buffer held before the painting
    panel,          \* the panel the bordered decorator wrapped: "none" | "Field" | "Controls"
    remainder       \* the index of the buffer at which the returned slice starts

fieldVars == <<size, mines, board, placed_mines, pc, check, op, pos, result, pre, repeated>>

callVars == <<op, pos, result, pre, repeated>>

gameVars == <<cursor, terminal_size, game_ended, closed>>

sessVars == <<main_pc, cursor, terminal_size, game_ended, closed, alt_screen, leaves, event>>

paintVars == <<buffer, prefill, panel, remainder>>

vars == <<fieldVars, sessVars, paintVars>>

(***************************************************************************)
(* Bounds of the model.                                                    *)
(***************************************************************************)
\* Field::new alone (SpecNew): sizes 0..MaxRows x 0..MaxCols, 0..MaxMines mines.
MaxRows == 3
MaxCols == 3
MaxMines == 6
\* The field operations (Spec): sizes 0..PlayRows x 0..PlayCols of at most
\* PlayCells cells, 0..PlayMines mines.
PlayRows == 2
PlayCols == 3
PlayCells == 6
PlayMines == 4
\* The same under fairness (FairSpec): 0..LiveMines mines.
LiveMines == 1
\* The session (SpecSession): sizes 0..SessRows x 0..SessCols of at most SessCells
\* cells, 0..SessMines mines, terminals TermCols wide and 0..MaxTermRows high.
SessRows == 2
SessCols == 3
SessCells == 4
SessMines == 2
TermCols == 1
MaxTermRows == 1
\* The painting (SpecPaint): fields of 1..PaintRows x 1..PaintCols, buffers of
\* 0..MaxBufLen rows.
PaintRows == 3
PaintCols == 2
MaxBufLen == 6
\* The field operations at any position (SpecEdge): sizes 0..EdgeRows x
\* 0..EdgeCols, 0..EdgeMines mines, positions up to one past the last row and
\* column.
EdgeRows == 2
EdgeCols == 2
EdgeMines == 2
\* A frame of the session (SpecFrame): fields of 1..FrameRows x 1..FrameCols,
\* terminals of 0..MaxFrameLen rows.
FrameRows == 3
FrameCols == 2
MaxFrameLen == 8

(***************************************************************************)
(* Cell (game.rs 246-322).                                                 *)
(***************************************************************************)
CellState == {"Unrevealed", "Flagged", "Revealed", "Exploded", "Empty"}

\* u8 arithmetic of Cell.neighbors
U8 == 256

DefaultCell == [state |-> "Unrevealed", neighbors |-> 0, mine |-> FALSE]

\* Reveal with the first two arms swapped: the zero count is tested before the mine.
RevealZeroFirst(cell) ==
    IF cell.state = "Unrevealed" /\ cell.neighbors = 0
    THEN [cell |-> [cell EXCEPT !.state = "Empty"], status |-> "Empty"]
    ELSE IF cell.state = "Unrevealed" /\ cell.mine
    THEN [cell |-> [cell EXCEPT !.state = "Exploded"], status |-> "Exploded"]
    ELSE IF cell.state = "Unrevealed"
    THEN [cell |-> [cell EXCEPT !.state = "Revealed"], status |-> "Safe"]
    ELSE [cell |-> cell, status |-> "None"]

\* Reveal whose first arm does not test the state: a mine explodes whenever revealed.
RevealMineAnyState(cell) ==
    IF cell.mine
    THEN [cell |-> [cell EXCEPT !.state = "Exploded"], status |-> "Exploded"]
    ELSE IF cell.state = "Unrevealed" /\ cell.neighbors = 0
    THEN [cell |-> [cell EXCEPT !.state = "Empty"], status |-> "Empty"]
    ELSE IF cell.state = "Unrevealed"
    THEN [cell |-> [cell EXCEPT !.state = "Revealed"], status |-> "Safe"]
    ELSE [cell |-> cell, status |-> "None"]

\* Reveal whose arms match `Unrevealed | Flagged`: a flag does not protect a cell.
RevealFlagged(cell) ==
    IF cell.state \in {"Unrevealed", "Flagged"} /\ cell.mine
    THEN [cell |-> [cell EXCEPT !.state = "Exploded"], status |-> "Exploded"]
    ELSE IF cell.state \in {"Unrevealed", "Flagged"} /\ cell.neighbors = 0
    THEN [cell |-> [cell EXCEPT !.state = "Empty"], status |-> "Empty"]
    ELSE IF cell.state \in {"Unrevealed", "Flagged"}
    THEN [cell |-> [cell EXCEPT !.state = "Revealed"], status |-> "Safe"]
    ELSE [cell |-> cell, status |-> "None"]

\* Cell::reveal: the cell after the call and the Option<RevealStatus> returned.
Reveal(cell) ==
    IF cell.state = "Unrevealed" /\ cell.mine
    THEN [cell |-> [cell EXCEPT !.state = "Exploded"], status |-> "Exploded"]
    ELSE IF cell.state = "Unrevealed" /\ cell.neighbors = 0
    THEN [cell |-> [cell EXCEPT !.state = "Empty"], status |-> "Empty"]
    ELSE IF cell.state = "Unrevealed"
    THEN [cell |-> [cell EXCEPT !.state = "Revealed"], status |-> "Safe"]
    ELSE [cell |-> cell, status |-> "None"]

\* toggle_flag without the Flagged arm: a flag cannot be taken back.
CellToggleFlagNoUnflag(cell) ==
    IF cell.state = "Unrevealed"
    THEN [cell |-> [cell EXCEPT !.state = "Flagged"], ok |-> TRUE]
    ELSE [cell |-> cell, ok |-> FALSE]

\* toggle_flag whose second arm is `_`: every cell that is not Unrevealed becomes
\* Unrevealed.
CellToggleFlagAnyState(cell) ==
    IF cell.state = "Unrevealed"
    THEN [cell |-> [cell EXCEPT !.state = "Flagged"], ok |-> TRUE]
    ELSE [cell |-> [cell EXCEPT !.state = "Unrevealed"], ok |-> TRUE]

\* Cell::toggle_flag: the cell after the call and the bool returned.
CellToggleFlag(cell) ==
    IF cell.state = "Unrevealed"
    THEN [cell |-> [cell EXCEPT !.state = "Flagged"], ok |-> TRUE]
    ELSE IF cell.state = "Flagged"
    THEN [cell |-> [cell EXCEPT !.state = "Unrevealed"], ok |-> TRUE]
    ELSE [cell |-> cell, ok |-> FALSE]

(***************************************************************************)
(* Board access: board[row][col] with the source's 0-based indices.        *)
(***************************************************************************)
Get(b, r, c) == b[r + 1][c + 1]

Set(b, r, c, cell) == [b EXCEPT ![r + 1][c + 1] = cell]

\* board[r][c].neighbors += 1
Bump(b, r, c) == [b EXCEPT ![r + 1][c + 1].neighbors = (@ + 1) % U8]

\* board.get(pos.0)?.get(pos.1)? is Some
InBoard(b, p) == p[1] < Len(b) /\ p[2] < Len(b[p[1] + 1])

(***************************************************************************)
(* Field::new (game.rs 152-191).                                           *)
(***************************************************************************)
\* The guard with the cap rounded down.
NewFailsFloor(sz, m) ==
    sz[1] = 0 \/ sz[2] = 0 \/ m > (sz[1] * sz[2]) \div 2

\* The guard of line 153: construction returns None.
NewFails(sz, m) ==
    sz[1] = 0 \/ sz[2] = 0 \/ m > (sz[1] * sz[2] + 1) \div 2

\* vec![vec![Cell::default(); size.1]; size.0]
NewBoard(sz) == [r \in 1..sz[1] |-> [c \in 1..sz[2] |-> DefaultCell]]

\* PlaceMine without the last increment (the cell above the mine).
PlaceMineNoTop(b, mine_row, mine_col) ==
    LET top_edge == mine_row = 0
        bottom_edge == mine_row = Len(b) - 1
        left_edge == mine_col = 0
        right_edge == mine_col = Len(b[1]) - 1
        b0 == [b EXCEPT ![mine_row + 1][mine_col + 1].mine = TRUE]
        b1 == IF ~left_edge /\ ~top_edge THEN Bump(b0, mine_row - 1, mine_col - 1) ELSE b0
        b2 == IF ~left_edge THEN Bump(b1, mine_row, mine_col - 1) ELSE b1
        b3 == IF ~left_edge /\ ~bottom_edge THEN Bump(b2, mine_row + 1, mine_col - 1) ELSE b2
        b4 == IF ~bottom_edge THEN Bump(b3, mine_row + 1, mine_col) ELSE b3
        b5 == IF ~right_edge /\ ~bottom_edge THEN Bump(b4, mine_row + 1, mine_col + 1) ELSE b4
        b6 == IF ~right_edge THEN Bump(b5, mine_row, mine_col + 1) ELSE b5
        b7 == IF ~right_edge /\ ~top_edge THEN Bump(b6, mine_row - 1, mine_col + 1) ELSE b6
    IN  b7

\* Lines 171-185: mark the sampled cell mined and bump its in-bounds neighbours.
PlaceMine(b, mine_row, mine_col) ==
    LET top_edge == mine_row = 0
        bottom_edge == mine_row = Len(b) - 1
        left_edge == mine_col = 0
        right_edge == mine_col = Len(b[1]) - 1
        b0 == [b EXCEPT ![mine_row + 1][mine_col + 1].mine = TRUE]
        b1 == IF ~left_edge /\ ~top_edge THEN Bump(b0, mine_row - 1, mine_col - 1) ELSE b0
        b2 == IF ~left_edge THEN Bump(b1, mine_row, mine_col - 1) ELSE b1
        b3 == IF ~left_edge /\ ~bottom_edge THEN Bump(b2, mine_row + 1, mine_col - 1) ELSE b2
        b4 == IF ~bottom_edge THEN Bump(b3, mine_row + 1, mine_col) ELSE b3
        b5 == IF ~right_edge /\ ~bottom_edge THEN Bump(b4, mine_row + 1, mine_col + 1) ELSE b4
        b6 == IF ~right_edge THEN Bump(b5, mine_row, mine_col + 1) ELSE b5
        b7 == IF ~right_edge /\ ~top_edge THEN Bump(b6, mine_row - 1, mine_col + 1) ELSE b6
        b8 == IF ~top_edge THEN Bump(b7, mine_row - 1, mine_col) ELSE b7
    IN  b8

\* Lines 152-157: the guard, then the empty board.
FieldNew ==
    /\ pc = "new"
    /\ IF NewFails(size, mines)
       THEN pc' = "none" /\ UNCHANGED board
       ELSE pc' = "gen" /\ board' = NewBoard(size)
    /\ UNCHANGED <<size, mines, placed_mines, check, callVars>>

\* One iteration of the loop of lines 164-188 for a sample (mine_row, mine_col).
GenSample ==
    /\ pc = "gen"
    /\ placed_mines < mines
    /\ \E mine_row \in 0..(size[1] - 1), mine_col \in 0..(size[2] - 1) :
          IF Get(board, mine_row, mine_col).mine
          THEN UNCHANGED <<board, placed_mines>>
          ELSE /\ board' = PlaceMine(board, mine_row, mine_col)
               /\ placed_mines' = placed_mines + 1
    /\ UNCHANGED <<size, mines, pc, check, callVars>>

\* Line 190: the loop has ended, Some(Self { board }).
GenDone ==
    /\ pc = "gen"
    /\ ~(placed_mines < mines)
    /\ pc' = "ready"
    /\ UNCHANGED <<size, mines, board, placed_mines, check, callVars>>

(***************************************************************************)
(* Field::clear_cell (game.rs 195-233).                                    *)
(***************************************************************************)
\* add_neighbors without the three pushes of the left column.
AddNeighborsNoLeft(chk, board_size, p) ==
    LET top_edge == p[1] = 0
        bottom_edge == p[1] = board_size[1] - 1
        right_edge == p[2] = board_size[2] - 1
        c4 == IF ~bottom_edge THEN Append(chk, <<p[1] + 1, p[2]>>) ELSE chk
        c5 == IF ~right_edge /\ ~bottom_edge THEN Append(c4, <<p[1] + 1, p[2] + 1>>) ELSE c4
        c6 == IF ~right_edge THEN Append(c5, <<p[1], p[2] + 1>>) ELSE c5
        c7 == IF ~right_edge /\ ~top_edge THEN Append(c6, <<p[1] - 1, p[2] + 1>>) ELSE c6
        c8 == IF ~top_edge THEN Append(c7, <<p[1] - 1, p[2]>>) ELSE c7
    IN  c8

\* add_neighbors with the four pushes of the diagonal neighbours left out.
AddNeighborsNoCorners(chk, board_size, p) ==
    LET top_edge == p[1] = 0
        bottom_edge == p[1] = board_size[1] - 1
        left_edge == p[2] = 0
        right_edge == p[2] = board_size[2] - 1
        c2 == IF ~left_edge THEN Append(chk, <<p[1], p[2] - 1>>) ELSE chk
        c4 == IF ~bottom_edge THEN Append(c2, <<p[1] + 1, p[2]>>) ELSE c2
        c6 == IF ~right_edge THEN Append(c4, <<p[1], p[2] + 1>>) ELSE c4
        c8 == IF ~top_edge THEN Append(c6, <<p[1] - 1, p[2]>>) ELSE c6
    IN  c8

\* add_neighbors (lines 207-221): push the in-bounds neighbours of pos.
AddNeighbors(chk, board_size, p) ==
    LET top_edge == p[1] = 0
        bottom_edge == p[1] = board_size[1] - 1
        left_edge == p[2] = 0
        right_edge == p[2] = board_size[2] - 1
        c1 == IF ~left_edge /\ ~top_edge THEN Append(chk, <<p[1] - 1, p[2] - 1>>) ELSE chk
        c2 == IF ~left_edge THEN Append(c1, <<p[1], p[2] - 1>>) ELSE c1
        c3 == IF ~left_edge /\ ~bottom_edge THEN Append(c2, <<p[1] + 1, p[2] - 1>>) ELSE c2
        c4 == IF ~bottom_edge THEN Append(c3, <<p[1] + 1, p[2]>>) ELSE c3
        c5 == IF ~right_edge /\ ~bottom_edge THEN Append(c4, <<p[1] + 1, p[2] + 1>>) ELSE c4
        c6 == IF ~right_edge THEN Append(c5, <<p[1], p[2] + 1>>) ELSE c5
        c7 == IF ~right_edge /\ ~top_edge THEN Append(c6, <<p[1] - 1, p[2] + 1>>) ELSE c6
        c8 == IF ~top_edge THEN Append(c7, <<p[1] - 1, p[2]>>) ELSE c7
    IN  c8

\* (self.board.len(), self.board[0].len())
BoardSize(b) == <<Len(b), Len(b[1])>>

\* The top read without being removed (last() for pop()).
PopKeep(chk) == chk

\* check.pop(): the stack without its top.
Pop(chk) == SubSeq(chk, 1, Len(chk) - 1)

\* Some(_) for Some(RevealStatus::Empty): every revealed cell expands.
ExpandsAnyReveal(status) == status # "None"

\* Some(RevealStatus::Safe) for Some(RevealStatus::Empty): numbered cells expand,
\* empty ones do not.
ExpandsSafe(status) == status = "Safe"

\* Line 227: the popped cell's neighbours are pushed when its reveal is Some(Empty).
Expands(status) == status = "Empty"

\* The positions the operations are called with: every cell of the field.
Positions == {<<r, c>> : r \in 0..(size[1] - 1), c \in 0..(size[2] - 1)}

\* Lines 195-223: the target's reveal, the early returns, the first pushes.
ClearCell(p) ==
    /\ pc = "ready"
    /\ op' = "clear_cell"
    /\ pos' = p
    /\ pre' = board
    /\ repeated' = (op = "clear_cell" /\ pos = p /\ result \in {"Some(true)", "Some(false)"})
    /\ IF ~InBoard(board, p)
       THEN /\ result' = "None"
            /\ UNCHANGED <<board, check, pc>>
       ELSE LET rv == Reveal(Get(board, p[1], p[2])) IN
            /\ board' = Set(board, p[1], p[2], rv.cell)
            /\ IF rv.status = "Empty"
               THEN /\ check' = AddNeighbors(<<>>, BoardSize(board), p)
                    /\ pc' = "cascade"
                    /\ result' = "pending"
               ELSE /\ result' = CASE rv.status = "Exploded" -> "Some(true)"
                                   [] rv.status = "Safe" -> "Some(false)"
                                   [] OTHER -> "None"
                    /\ UNCHANGED <<check, pc>>
    /\ UNCHANGED <<size, mines, placed_mines>>

\* One iteration of the loop of lines 225-230.
CascadeStep ==
    /\ pc = "cascade"
    /\ check # <<>>
    /\ LET next == check[Len(check)]
           rest == Pop(check)
           rv == Reveal(Get(board, next[1], next[2]))
       IN  /\ board' = Set(board, next[1], next[2], rv.cell)
           /\ check' = IF Expands(rv.status)
                       THEN AddNeighbors(rest, BoardSize(board), next)
                       ELSE rest
    /\ UNCHANGED <<size, mines, placed_mines, pc, callVars>>

\* Line 232: the stack is empty, Some(false).
CascadeEnd ==
    /\ pc = "cascade"
    /\ check = <<>>
    /\ pc' = "ready"
    /\ result' = "Some(false)"
    /\ UNCHANGED <<size, mines, board, placed_mines, check, op, pos, pre, repeated>>

(***************************************************************************)
(* Field::toggle_flag (game.rs 237-243).                                   *)
(***************************************************************************)
ToggleFlag(p) ==
    /\ pc = "ready"
    /\ op' = "toggle_flag"
    /\ pos' = p
    /\ pre' = board
    /\ repeated' = (op = "toggle_flag" /\ pos = p /\ result = "Some(true)")
    /\ IF ~InBoard(board, p)
       THEN result' = "None" /\ UNCHANGED board
       ELSE LET tf == CellToggleFlag(Get(board, p[1], p[2])) IN
            /\ board' = Set(board, p[1], p[2], tf.cell)
            /\ result' = IF tf.ok THEN "Some(true)" ELSE "Some(false)"
    /\ UNCHANGED <<size, mines, placed_mines, pc, check>>

(***************************************************************************)
(* The session: Game (game.rs 17-142) and main (main.rs 6-27).             *)
(***************************************************************************)
\* u16 arithmetic of the cursor
U16 == 65536

\* impl Component for Field: width (tui.rs 76-78) and height (tui.rs 80-82).
FieldWidth(b) == IF Len(b) > 0 THEN Len(b[1]) ELSE 0

FieldHeight(b) == Len(b)

Directions == {"Left", "Right", "Up", "Down"}

\* Direction::offset; an overflowing + 1 wraps (it panics in a debug build).
Offset(direction, p) ==
    CASE direction = "Left" -> <<IF p[1] > 0 THEN p[1] - 1 ELSE 0, p[2]>>
      [] direction = "Right" -> <<(p[1] + 1) % U16, p[2]>>
      [] direction = "Up" -> <<p[1], IF p[2] > 0 THEN p[2] - 1 ELSE 0>>
      [] direction = "Down" -> <<p[1], (p[2] + 1) % U16>>

\* step_cursor with the bounds compared by <= (one past the last column and row).
StepCursorOffByOne(cur, b, direction) ==
    LET new_pos == Offset(direction, cur)
    IN  IF new_pos[1] <= FieldWidth(b) % U16 /\ new_pos[2] <= FieldHeight(b) % U16
        THEN new_pos
        ELSE cur

\* Game::step_cursor: the cursor after the call.
StepCursor(cur, b, direction) ==
    LET new_pos == Offset(direction, cur)
    IN  IF new_pos[1] < FieldWidth(b) % U16 /\ new_pos[2] < FieldHeight(b) % U16
        THEN new_pos
        ELSE cur

\* What terminal::size() and Event::Resize report.
TermSizes == {TermCols} \X (0..MaxTermRows)

\* The cursor passed as it is: (self.cursor.0 as usize, self.cursor.1 as usize).
CursorCellSwapped == <<cursor[1], cursor[2]>>

\* (self.cursor.1 as usize, self.cursor.0 as usize)
CursorCell == <<cursor[2], cursor[1]>>

\* The Field (and the Game that owns it) is dropped: its memory is gone, and the
\* variables that held it go back to their initial values.
Dropped ==
    /\ board' = <<>>
    /\ placed_mines' = 0
    /\ pc' = "dropped"
    /\ check' = <<>>
    /\ op' = "none"
    /\ pos' = <<0, 0>>
    /\ result' = "none"
    /\ pre' = <<>>
    /\ repeated' = FALSE
    /\ cursor' = <<0, 0>>
    /\ terminal_size' = <<0, 0>>
    /\ game_ended' = FALSE
    /\ closed' = FALSE
    /\ event' = "none"
    /\ UNCHANGED <<size, mines>>

\* impl Drop for Game, run when main returns or unwinds: close() unless closed;
\* a failed close() panics (or, while panicking, is written to stderr).
DropGame(panicking) ==
    /\ IF closed
       THEN /\ main_pc' = (IF panicking THEN "panic" ELSE "exit")
            /\ UNCHANGED <<alt_screen, leaves>>
       ELSE \E leave_ok \in BOOLEAN :
               /\ leaves' = leaves + 1
               /\ IF leave_ok
                  THEN /\ alt_screen' = FALSE
                       /\ main_pc' = (IF panicking THEN "panic" ELSE "exit")
                  ELSE /\ main_pc' = "panic"
                       /\ UNCHANGED alt_screen
    /\ Dropped

\* main line 9: Field::new(..).unwrap() on None.
FieldNone ==
    /\ main_pc = "field"
    /\ pc = "none"
    /\ main_pc' = "panic"
    /\ UNCHANGED <<fieldVars, gameVars, alt_screen, leaves, event>>

\* Game::new(field).unwrap(): enter the alternate screen, query the size.
GameNew ==
    /\ main_pc = "field"
    /\ pc = "ready"
    /\ \E enter_ok \in BOOLEAN, sz \in TermSizes \cup {<<>>} :
          IF ~enter_ok
          THEN \* line 28: Err before anything is built; the field is dropped
               /\ main_pc' = "panic"
               /\ Dropped
               /\ UNCHANGED alt_screen
          ELSE IF sz = <<>>
          THEN \* line 34: Err after the screen was entered; no Game, no Drop
               /\ alt_screen' = TRUE
               /\ main_pc' = "panic"
               /\ Dropped
          ELSE /\ alt_screen' = TRUE
               /\ cursor' = <<0, 0>>
               /\ terminal_size' = sz
               /\ game_ended' = FALSE
               /\ closed' = FALSE
               /\ main_pc' = "render"
               /\ UNCHANGED <<fieldVars, event>>
    /\ UNCHANGED leaves

\* game.render().unwrap(): the frame is written, or a write fails and main unwinds.
Render ==
    /\ main_pc = "render"
    /\ \E write_ok \in BOOLEAN :
          IF write_ok
          THEN /\ main_pc' = "read"
               /\ event' = "none"
               /\ UNCHANGED <<fieldVars, gameVars, alt_screen, leaves>>
          ELSE DropGame(TRUE)

\* crossterm::event::read().unwrap() on Err.
ReadFails ==
    /\ main_pc = "read"
    /\ DropGame(TRUE)

\* handle_event, lines 69-72: an arrow key.
KeyMove(direction) ==
    /\ main_pc = "read"
    /\ cursor' = StepCursor(cursor, board, direction)
    /\ event' = direction
    /\ main_pc' = "render"
    /\ UNCHANGED <<fieldVars, terminal_size, game_ended, closed, alt_screen, leaves>>

\* The space key with `self.game_ended = matches!(r, Some(true))` for the `if`.
KeySpaceAssignsEnded ==
    /\ main_pc = "read"
    /\ ClearCell(CursorCell)
    /\ event' = "Space"
    /\ game_ended' = (result' = "Some(true)")
    /\ main_pc' = (IF pc' = "cascade" THEN "handle" ELSE "render")
    /\ UNCHANGED <<cursor, terminal_size, closed, alt_screen, leaves>>

\* handle_event, lines 73-78: the space key.
KeySpace ==
    /\ main_pc = "read"
    /\ ClearCell(CursorCell)
    /\ event' = "Space"
    /\ game_ended' = (IF result' = "Some(true)" THEN TRUE ELSE game_ended)
    /\ main_pc' = (IF pc' = "cascade" THEN "handle" ELSE "render")
    /\ UNCHANGED <<cursor, terminal_size, closed, alt_screen, leaves>>

\* The loop of clear_cell while the space key is handled.
KeySpaceCascade ==
    /\ main_pc = "handle"
    /\ CascadeStep
    /\ UNCHANGED sessVars

\* clear_cell returns Some(false) to handle_event, which returns Ok(true).
KeySpaceReturn ==
    /\ main_pc = "handle"
    /\ CascadeEnd
    /\ main_pc' = "render"
    /\ UNCHANGED <<gameVars, alt_screen, leaves, event>>

\* handle_event, lines 79-81: the f key.
KeyF ==
    /\ main_pc = "read"
    /\ ToggleFlag(CursorCell)
    /\ event' = "f"
    /\ main_pc' = "render"
    /\ UNCHANGED <<gameVars, alt_screen, leaves>>

\* handle_event, line 82: the q key; Ok(false) ends the loop of main.
KeyQ ==
    /\ main_pc = "read"
    /\ event' = "q"
    /\ main_pc' = "quit"
    /\ UNCHANGED <<fieldVars, gameVars, alt_screen, leaves>>

\* main line 27: main returns and the Game is dropped.
MainReturn ==
    /\ main_pc = "quit"
    /\ DropGame(FALSE)

\* Another key or event with `continue` in the loop of main: no redraw.
IgnoredSkipsRedraw(ev) ==
    /\ main_pc = "read"
    /\ event' = ev
    /\ main_pc' = "read"
    /\ UNCHANGED <<fieldVars, gameVars, alt_screen, leaves>>

\* handle_event, line 83 (another key) and line 86 (another event).
Ignored(ev) ==
    /\ main_pc = "read"
    /\ event' = ev
    /\ main_pc' = "render"
    /\ UNCHANGED <<fieldVars, gameVars, alt_screen, leaves>>

\* handle_event, line 85: Event::Resize(width, height).
Resize(sz) ==
    /\ main_pc = "read"
    /\ terminal_size' = sz
    /\ event' = "Resize"
    /\ main_pc' = "render"
    /\ UNCHANGED <<fieldVars, cursor, game_ended, closed, alt_screen, leaves>>

(***************************************************************************)
(* The panels (tui.rs).  A slice &mut buffer[lo..hi] of the line buffer is *)
(* the pair of 0-based indices (lo, hi); render_at returns the buffer as   *)
(* painted and the index at which the returned slice starts (every         *)
(* returned slice ends where the slice passed in ends).                    *)
(***************************************************************************)
Min(a, b) == IF a < b THEN a ELSE b

\* impl Display for Cell (game.rs 259-270), with names for the glyphs.
CellToString(cell) ==
    CASE cell.state = "Unrevealed" -> "block"
      [] cell.state = "Flagged" -> "flag"
      [] cell.state = "Revealed" -> ToString(cell.neighbors)
      [] cell.state = "Exploded" -> "star"
      [] cell.state = "Empty" -> "shade"

\* string.extend(chars) on row i (0-based) of the buffer
Extend(buf, i, chars) == [buf EXCEPT ![i + 1] = @ \o chars]

\* row.iter().map(|cell| cell.to_string())
RowToStrings(row) == [c \in 1..Len(row) |-> CellToString(row[c])]

\* Extend over the rows lo + i, i < k, with chars(i).
RECURSIVE FieldRows(_, _, _, _)
FieldRows(b, buf, lo, k) ==
    IF k = 0
    THEN buf
    ELSE Extend(FieldRows(b, buf, lo, k - 1), lo + k - 1, RowToStrings(b[k]))

\* impl Component for Field: render_at (tui.rs 68-74).
FieldRenderAt(b, buf, lo, hi) ==
    LET buffer_len == hi - lo
    IN  [buf |-> FieldRows(b, buf, lo, Min(buffer_len, Len(b))),
         lo |-> lo + Min(buffer_len, Len(b))]

\* Controls::TEXT.lines() (tui.rs 89): the one line "test".
ControlsText == <<<<"t", "e", "s", "t">>>>

\* Controls::WIDTH (tui.rs 91-108): the longest line.
ControlsWidth == Len(ControlsText[1])

\* Controls::HEIGHT (tui.rs 110-121): the number of lines.
ControlsHeight == Len(ControlsText)

RECURSIVE TextRows(_, _, _, _)
TextRows(text, buf, lo, k) ==
    IF k = 0
    THEN buf
    ELSE Extend(TextRows(text, buf, lo, k - 1), lo + k - 1, text[k])

\* impl Component for Controls: render_at (tui.rs 125-131).
ControlsRenderAt(buf, lo, hi) ==
    LET buffer_len == hi - lo
    IN  [buf |-> TextRows(ControlsText, buf, lo, Min(buffer_len, Len(ControlsText))),
         lo |-> lo + Min(buffer_len, ControlsHeight)]

\* The wrapped panel self.0: its width(), height() and render_at().
InnerWidth(p, b) == IF p = "Field" THEN FieldWidth(b) ELSE ControlsWidth

InnerHeight(p, b) == IF p = "Field" THEN FieldHeight(b) ELSE ControlsHeight

InnerRenderAt(p, b, buf, lo, hi) ==
    IF p = "Field" THEN FieldRenderAt(b, buf, lo, hi) ELSE ControlsRenderAt(buf, lo, hi)

\* repeat(ch).take(n)
Repeat(ch, n) == [i \in 1..n |-> ch]

\* The side loop without its skip(1): the rows lo .. lo + k - 1.
RECURSIVE PushSidesFromTop(_, _, _, _)
PushSidesFromTop(buf, lo, k, ch) ==
    IF k = 0
    THEN buf
    ELSE Extend(PushSidesFromTop(buf, lo, k - 1, ch), lo + k - 1, <<ch>>)

\* line.push(ch) for the rows lo + 1 .. lo + k
RECURSIVE PushSides(_, _, _, _)
PushSides(buf, lo, k, ch) ==
    IF k = 0
    THEN buf
    ELSE Extend(PushSides(buf, lo, k - 1, ch), lo + k, <<ch>>)

\* BoxedComponent::render_at, lines 50-54: the slice returned.
BoxedRest(buffer_len, inner_height, lo) ==
    IF buffer_len <= inner_height + 2 THEN lo ELSE lo + inner_height + 2

\* impl Component for BoxedComponent: render_at (tui.rs 19-55).
BoxedRenderAt(p, b, buf, lo, hi) ==
    LET buffer_len == hi - lo
        inner_width == InnerWidth(p, b)
        inner_height == InnerHeight(p, b)
        \* skip(1).take(inner_height) over buffer_len rows
        sides == Min(IF buffer_len > 1 THEN buffer_len - 1 ELSE 0, inner_height)
        b1 == Extend(buf, lo, <<"top_left">> \o Repeat("horizontal", inner_width) \o <<"top_right">>)
        b2 == PushSides(b1, lo, sides, "vertical")
        b3 == InnerRenderAt(p, b, b2, lo + 1, lo + Min(buffer_len, inner_height + 1)).buf
        b4 == PushSides(b3, lo, sides, "vertical")
        b5 == IF buffer_len > inner_height + 1
              THEN Extend(b4, lo + inner_height + 1,
                          <<"bottom_left">> \o Repeat("horizontal", inner_width) \o <<"bottom_right">>)
              ELSE b4
    IN  IF buffer_len < 1
        THEN [buf |-> buf, lo |-> lo]
        ELSE [buf |-> b5, lo |-> BoxedRest(buffer_len, inner_height, lo)]

\* impl Component for BoxedComponent: width (tui.rs 57-59), height (tui.rs 61-63).
BoxedWidth(p, b) == InnerWidth(p, b) + 2

BoxedHeight(p, b) == InnerHeight(p, b) + 2

\* The rows render_at indexes in a buffer of buffer_len rows: buffer[0] (lines
\* 28-30) and buffer[inner_height + 1] (lines 45-47); the iterators of lines 34
\* and 40 stay inside the slice by construction.
BoxedIndexed(buffer_len, inner_height) ==
    IF buffer_len < 1
    THEN {}
    ELSE {0} \cup (IF buffer_len > inner_height + 1 THEN {inner_height + 1} ELSE {})

\* The ranges render_at slices out of the buffer, as <<start, end>>:
\* buffer[1..buffer_len.min(inner_height + 1)] (line 38) and
\* buffer[inner_height + 2..] (line 53).
BoxedSliced(buffer_len, inner_height) ==
    IF buffer_len < 1
    THEN {}
    ELSE {<<1, Min(buffer_len, inner_height + 1)>>}
         \cup (IF buffer_len <= inner_height + 2
               THEN {}
               ELSE {<<inner_height + 2, buffer_len>>})

\* Title::new("Game Over").text.lines() (game.rs 52, tui.rs 166): one line.
TitleText == <<<<"G", "a", "m", "e", " ", "O", "v", "e", "r">>>>

\* impl Component for Title: render_at (tui.rs 164-172).
TitleRenderAt(buf, lo, hi) ==
    LET buffer_len == hi - lo
        count == Min(buffer_len, Len(TitleText))
    IN  [buf |-> TextRows(TitleText, buf, lo, count),
         lo |-> lo + Min(buffer_len, count)]

\* Game::render, lines 48-53: the buffer of terminal_size.1 empty rows, the
\* bordered field, the bordered controls in the slice the field returned, the
\* title in the slice the controls returned when the game has ended.  at: the
\* row at which the slice handed to the controls starts.
RenderBuffer(b, term, ended) ==
    LET n == term[2]
        empty == [i \in 1..n |-> <<>>]
        f == BoxedRenderAt("Field", b, empty, 0, n)
        c == BoxedRenderAt("Controls", b, f.buf, f.lo, n)
        t == IF ended THEN TitleRenderAt(c.buf, c.lo, n) ELSE c
    IN  [buf |-> t.buf, at |-> f.lo]

\* The frame of Game::render as it is handed to write!.
RenderFrame ==
    /\ panel = "none"
    /\ main_pc = "render"
    /\ LET r == RenderBuffer(board, terminal_size, game_ended)
       IN  /\ buffer' = r.buf
           /\ remainder' = r.at
    /\ panel' = "Frame"
    /\ UNCHANGED <<fieldVars, sessVars, prefill>>

\* BoxedComponent(&panel).render_at(&mut buffer) on the whole buffer.
PaintBoxed(p) ==
    /\ panel = "none"
    /\ LET r == BoxedRenderAt(p, board, buffer, 0, Len(buffer))
       IN  /\ buffer' = r.buf
           /\ remainder' = r.lo
    /\ panel' = p
    /\ UNCHANGED <<fieldVars, sessVars, prefill>>

(***************************************************************************)
(* Specifications.                                                         *)
(***************************************************************************)
InitCommon ==
    /\ board = <<>>
    /\ placed_mines = 0
    /\ pc = "new"
    /\ check = <<>>
    /\ op = "none"
    /\ pos = <<0, 0>>
    /\ result = "none"
    /\ pre = <<>>
    /\ repeated = FALSE
    /\ main_pc = "field"
    /\ cursor = <<0, 0>>
    /\ terminal_size = <<0, 0>>
    /\ game_ended = FALSE
    /\ closed = FALSE
    /\ alt_screen = FALSE
    /\ leaves = 0
    /\ event = "none"

\* No panel is painted.
InitNoPaint ==
    /\ buffer = <<>>
    /\ prefill = <<>>
    /\ panel = "none"
    /\ remainder = 0

\* Field::new on its own.
InitNew ==
    /\ size \in (0..MaxRows) \X (0..MaxCols)
    /\ mines \in 0..MaxMines
    /\ InitCommon
    /\ InitNoPaint

NextNew ==
    \/ FieldNew /\ UNCHANGED <<sessVars, paintVars>>
    \/ GenSample /\ UNCHANGED <<sessVars, paintVars>>
    \/ GenDone /\ UNCHANGED <<sessVars, paintVars>>

SpecNew == InitNew /\ [][NextNew]_vars

\* A field and the operations on it.
Init ==
    /\ size \in {sz \in (0..PlayRows) \X (0..PlayCols) : sz[1] * sz[2] <= PlayCells}
    /\ mines \in 0..PlayMines
    /\ InitCommon
    /\ InitNoPaint

Next ==
    \/ FieldNew /\ UNCHANGED <<sessVars, paintVars>>
    \/ GenSample /\ UNCHANGED <<sessVars, paintVars>>
    \/ GenDone /\ UNCHANGED <<sessVars, paintVars>>
    \/ \E p \in Positions : ClearCell(p) /\ UNCHANGED <<sessVars, paintVars>>
    \/ CascadeStep /\ UNCHANGED <<sessVars, paintVars>>
    \/ CascadeEnd /\ UNCHANGED <<sessVars, paintVars>>
    \/ \E p \in Positions : ToggleFlag(p) /\ UNCHANGED <<sessVars, paintVars>>

Spec == Init /\ [][Next]_vars

\* The session on a field of any size.
InitSession ==
    /\ size \in {sz \in (0..SessRows) \X (0..SessCols) : sz[1] * sz[2] <= SessCells}
    /\ mines \in 0..SessMines
    /\ InitCommon
    /\ InitNoPaint

NextSession ==
    \/ FieldNew /\ UNCHANGED <<sessVars, paintVars>>
    \/ GenSample /\ UNCHANGED <<sessVars, paintVars>>
    \/ GenDone /\ UNCHANGED <<sessVars, paintVars>>
    \/ FieldNone /\ UNCHANGED paintVars
    \/ GameNew /\ UNCHANGED paintVars
    \/ Render /\ UNCHANGED paintVars
    \/ ReadFails /\ UNCHANGED paintVars
    \/ \E direction \in Directions : KeyMove(direction) /\ UNCHANGED paintVars
    \/ KeySpace /\ UNCHANGED paintVars
    \/ KeySpaceCascade /\ UNCHANGED paintVars
    \/ KeySpaceReturn /\ UNCHANGED paintVars
    \/ KeyF /\ UNCHANGED paintVars
    \/ KeyQ /\ UNCHANGED paintVars
    \/ MainReturn /\ UNCHANGED paintVars
    \/ \E ev \in {"other_key", "other_event"} : Ignored(ev) /\ UNCHANGED paintVars
    \/ \E sz \in TermSizes : Resize(sz) /\ UNCHANGED paintVars

SpecSession == InitSession /\ [][NextSession]_vars

\* A field and the operations on it, called with any (usize, usize) near it.
EdgePositions == (0..size[1]) \X (0..size[2])

InitEdge ==
    /\ size \in (0..EdgeRows) \X (0..EdgeCols)
    /\ mines \in 0..EdgeMines
    /\ InitCommon
    /\ InitNoPaint

NextEdge ==
    \/ FieldNew /\ UNCHANGED <<sessVars, paintVars>>
    \/ GenSample /\ UNCHANGED <<sessVars, paintVars>>
    \/ GenDone /\ UNCHANGED <<sessVars, paintVars>>
    \/ \E p \in EdgePositions : ClearCell(p) /\ UNCHANGED <<sessVars, paintVars>>
    \/ CascadeStep /\ UNCHANGED <<sessVars, paintVars>>
    \/ CascadeEnd /\ UNCHANGED <<sessVars, paintVars>>
    \/ \E p \in EdgePositions : ToggleFlag(p) /\ UNCHANGED <<sessVars, paintVars>>

SpecEdge == InitEdge /\ [][NextEdge]_vars

\* A bordered panel painted into a buffer: the field is the one Field::new builds
\* for 0 mines; the rows are empty or hold text painted before.
InitPaint ==
    /\ size \in (1..PaintRows) \X (1..PaintCols)
    /\ mines = 0
    /\ board = NewBoard(size)
    /\ placed_mines = 0
    /\ pc = "ready"
    /\ check = <<>>
    /\ op = "none"
    /\ pos = <<0, 0>>
    /\ result = "none"
    /\ pre = <<>>
    /\ repeated = FALSE
    /\ main_pc = "field"
    /\ cursor = <<0, 0>>
    /\ terminal_size = <<0, 0>>
    /\ game_ended = FALSE
    /\ closed = FALSE
    /\ alt_screen = FALSE
    /\ leaves = 0
    /\ event = "none"
    /\ prefill \in {<<>>, ControlsText[1]}
    /\ \E n \in 0..MaxBufLen : buffer = [i \in 1..n |-> prefill]
    /\ panel = "none"
    /\ remainder = 0

\* A session about to redraw: a fresh field, or a field of one mine that has
\* exploded under the cursor at (0, 0); a terminal of any height.
InitFrame ==
    /\ size \in (1..FrameRows) \X (1..FrameCols)
    /\ game_ended \in BOOLEAN
    /\ mines = (IF game_ended THEN 1 ELSE 0)
    /\ placed_mines = mines
    /\ board = IF game_ended
               THEN LET b == PlaceMine(NewBoard(size), 0, 0)
                    IN  Set(b, 0, 0, Reveal(Get(b, 0, 0)).cell)
               ELSE NewBoard(size)
    /\ pc = "ready"
    /\ check = <<>>
    /\ op = (IF game_ended THEN "clear_cell" ELSE "none")
    /\ pos = <<0, 0>>
    /\ result = (IF game_ended THEN "Some(true)" ELSE "none")
    /\ pre = (IF game_ended THEN PlaceMine(NewBoard(size), 0, 0) ELSE <<>>)
    /\ repeated = FALSE
    /\ main_pc = "render"
    /\ cursor = <<0, 0>>
    /\ terminal_size \in {TermCols} \X (0..MaxFrameLen)
    /\ closed = FALSE
    /\ alt_screen = TRUE
    /\ leaves = 0
    /\ event = (IF game_ended THEN "Space" ELSE "none")
    /\ InitNoPaint

NextFrame == RenderFrame

SpecFrame == InitFrame /\ [][NextFrame]_vars

NextPaint == \E p \in {"Field", "Controls"} : PaintBoxed(p)

SpecPaint == InitPaint /\ [][NextPaint]_vars

\* clear_cell runs to its end once called: its loop is sequential code of one
\* thread, so an iteration that can be taken is taken.
FairInit == Init /\ mines <= LiveMines

FairSpec ==
    /\ FairInit
    /\ [][Next]_vars
    /\ WF_vars(CascadeStep /\ UNCHANGED <<sessVars, paintVars>>)
    /\ WF_vars(CascadeEnd /\ UNCHANGED <<sessVars, paintVars>>)

(***************************************************************************)
(* Vocabulary of the properties.                                           *)
(***************************************************************************)
At(b, p) == Get(b, p[1], p[2])

\* The in-bounds positions of a board.
Cells(b) == {<<r - 1, c - 1>> : r \in DOMAIN b, c \in 1..(IF b = <<>> THEN 0 ELSE Len(b[1]))}

Abs(x) == IF x < 0 THEN -x ELSE x

\* The in-bounds 8-neighbours of p.
Neighbours8(b, p) ==
    {q \in Cells(b) : q # p /\ Abs(q[1] - p[1]) <= 1 /\ Abs(q[2] - p[2]) <= 1}

Mined(b) == {p \in Cells(b) : At(b, p).mine}

\* The cells whose state differs between two boards of one field.
Changed(b1, b2) == {p \in Cells(b1) : At(b1, p).state # At(b2, p).state}

\* The least k with 2k >= n.
CeilHalf(n) == CHOOSE k \in 0..n : 2 * k >= n /\ 2 * k < n + 2

\* The last call was clear_cell on a cell that was Unrevealed.
ClearedUnrevealed ==
    /\ op = "clear_cell"
    /\ InBoard(pre, pos)
    /\ At(pre, pos).state = "Unrevealed"

(***************************************************************************)
(* C1: a constructed field has exactly `mines` mined cells, and every      *)
(* cell's neighbors value is the number of mined cells among its in-bounds *)
(* 8-neighbours.                                                           *)
(***************************************************************************)
C1_MinesAndNeighbors ==
    pc = "ready" =>
        /\ Cells(board) = {<<r, c>> : r \in 0..(size[1] - 1), c \in 0..(size[2] - 1)}
        /\ Cardinality(Mined(board)) = mines
        /\ \A p \in Cells(board) :
              /\ At(board, p).neighbors = Cardinality(Neighbours8(board, p) \cap Mined(board))
              /\ At(board, p).state = "Unrevealed"

\* A single-row field whose middle cell lies between two mines.
C1_Witness ==
    /\ pc = "ready"
    /\ size = <<1, 3>>
    /\ mines = 2
    /\ Get(board, 0, 1).neighbors = 2
    /\ Get(board, 0, 0).neighbors = 0

(***************************************************************************)
(* C2: Field::new returns None exactly when rows = 0, cols = 0 or          *)
(* mines > ceil(rows*cols/2), and then no board was built.                 *)
(***************************************************************************)
C2_FailsExactlyWhenInvalid ==
    pc # "new" =>
        /\ pc = "none" <=>
              (size[1] = 0 \/ size[2] = 0 \/ mines > CeilHalf(size[1] * size[2]))
        /\ pc = "none" => board = <<>>

\* The boundary case of the spec: 5 mines on a 3x3 field are placed.
C2_Witness ==
    /\ size = <<3, 3>>
    /\ mines = 5
    /\ pc = "ready"
    /\ Cardinality(Mined(board)) = 5

(***************************************************************************)
(* C3: clear_cell on an Unrevealed mined cell returns Some(true), makes    *)
(* that cell Exploded, starts no cascade and leaves every other cell as it *)
(* was.                                                                    *)
(***************************************************************************)
C3_MineDetonates ==
    (ClearedUnrevealed /\ At(pre, pos).mine) =>
        /\ pc = "ready"
        /\ check = <<>>
        /\ result = "Some(true)"
        /\ board = Set(pre, pos[1], pos[2], [At(pre, pos) EXCEPT !.state = "Exploded"])

\* The detonated mine has neighbor count 0 and an Unrevealed neighbour.
C3_Witness ==
    /\ ClearedUnrevealed
    /\ At(pre, pos).mine
    /\ At(pre, pos).neighbors = 0
    /\ result = "Some(true)"
    /\ \E q \in Neighbours8(board, pos) : At(board, q).state = "Unrevealed"

(***************************************************************************)
(* C4: a cell becomes Exploded only as the direct target of clear_cell, no *)
(* other mined cell changes during the call, and clear_cell on an          *)
(* Unrevealed cell that is no mine returns Some(false).                    *)
(***************************************************************************)
C4_CascadeSparesMines ==
    op # "none" =>
        /\ \A q \in Cells(board) :
              (At(board, q).state = "Exploded" /\ At(pre, q).state # "Exploded")
                  => (op = "clear_cell" /\ q = pos)
        /\ \A q \in Mined(board) : q # pos => At(board, q) = At(pre, q)
        /\ (ClearedUnrevealed /\ ~At(pre, pos).mine /\ pc = "ready")
              => result = "Some(false)"

\* A finished cascade that revealed a numbered cell beside an Unrevealed mine.
C4_Witness ==
    /\ ClearedUnrevealed
    /\ pc = "ready"
    /\ At(pre, pos).neighbors = 0
    /\ ~At(pre, pos).mine
    /\ result = "Some(false)"
    /\ \E q \in Mined(board) :
          /\ At(board, q).state = "Unrevealed"
          /\ \E n \in Neighbours8(board, q) :
                At(board, n).state = "Revealed" /\ At(pre, n).state = "Unrevealed"

(***************************************************************************)
(* C5: every cascade ends: once clear_cell is in its loop, the work stack  *)
(* eventually is empty and the call returns.                               *)
(***************************************************************************)
C5_CascadeTerminates == (pc = "cascade") ~> (pc = "ready" /\ check = <<>>)

\* The stack holds one position twice.
C5_Witness ==
    /\ pc = "cascade"
    /\ \E i, j \in DOMAIN check : i < j /\ check[i] = check[j]

(***************************************************************************)
(* C6, as claimed: clear_cell on an Unrevealed zero-count cell that is no  *)
(* mine and has an in-bounds neighbour of count 0 changes more than one    *)
(* cell.                                                                   *)
(***************************************************************************)
C6_AsClaimed ==
    ( /\ ClearedUnrevealed
      /\ pc = "ready"
      /\ ~At(pre, pos).mine
      /\ At(pre, pos).neighbors = 0
      /\ \E n \in Neighbours8(pre, pos) : At(pre, n).neighbors = 0 )
        => Cardinality(Changed(pre, board)) > 1

(***************************************************************************)
(* C6, amended: the same when that zero-count neighbour is Unrevealed at   *)
(* the call.                                                               *)
(***************************************************************************)
C6_UnrevealedNeighbour ==
    ( /\ ClearedUnrevealed
      /\ pc = "ready"
      /\ ~At(pre, pos).mine
      /\ At(pre, pos).neighbors = 0
      /\ \E n \in Neighbours8(pre, pos) :
            At(pre, n).neighbors = 0 /\ At(pre, n).state = "Unrevealed" )
        => Cardinality(Changed(pre, board)) > 1

\* Such a call next to a Flagged neighbour, which it leaves alone.
C6_Witness ==
    /\ ClearedUnrevealed
    /\ pc = "ready"
    /\ ~At(pre, pos).mine
    /\ At(pre, pos).neighbors = 0
    /\ \E n \in Neighbours8(pre, pos) :
          At(pre, n).neighbors = 0 /\ At(pre, n).state = "Unrevealed"
    /\ \E n \in Neighbours8(pre, pos) : At(board, n).state = "Flagged"
    /\ Cardinality(Changed(pre, board)) > 1

(***************************************************************************)
(* C7: a clear_cell that repeats a successful clear_cell of the same       *)
(* position returns None and leaves the board as it was.                   *)
(***************************************************************************)
C7_RevealIdempotent ==
    (op = "clear_cell" /\ repeated) =>
        /\ pc = "ready"
        /\ check = <<>>
        /\ result = "None"
        /\ board = pre

\* The repeated call on a cell a cascade made Empty, beside a Flagged cell.
C7_Witness ==
    /\ op = "clear_cell"
    /\ repeated
    /\ result = "None"
    /\ At(board, pos).state = "Empty"
    /\ \E n \in Neighbours8(board, pos) : At(board, n).state = "Flagged"

(***************************************************************************)
(* C8: toggle_flag on an Unrevealed cell returns true and makes it         *)
(* Flagged, and the toggle_flag of the same position that follows returns  *)
(* true and restores the board from before the first call.                 *)
(***************************************************************************)
C8_FlagRoundTrip ==
    [][ ( /\ pc = "ready"
          /\ op = "toggle_flag"
          /\ InBoard(pre, pos)
          /\ At(pre, pos).state = "Unrevealed"
          /\ op' = "toggle_flag"
          /\ pos' = pos )
        => ( /\ result = "Some(true)"
             /\ At(board, pos).state = "Flagged"
             /\ result' = "Some(true)"
             /\ board' = pre ) ]_vars

\* The second toggle_flag has brought the cell back from Flagged.
C8_Witness ==
    /\ op = "toggle_flag"
    /\ repeated
    /\ result = "Some(true)"
    /\ At(pre, pos).state = "Flagged"
    /\ At(board, pos).state = "Unrevealed"

(***************************************************************************)
(* C9: while the session runs the cursor lies inside the field, and an     *)
(* arrow key moves it one cell, or leaves it where it is when the move     *)
(* would cross the edge (no wraparound).                                   *)
(***************************************************************************)
\* The cursor one step in a direction, kept inside a w x h field.
ClampedMove(direction, cur, w, h) ==
    CASE direction = "Left" -> <<IF cur[1] = 0 THEN 0 ELSE cur[1] - 1, cur[2]>>
      [] direction = "Right" -> <<IF cur[1] = w - 1 THEN w - 1 ELSE cur[1] + 1, cur[2]>>
      [] direction = "Up" -> <<cur[1], IF cur[2] = 0 THEN 0 ELSE cur[2] - 1>>
      [] direction = "Down" -> <<cur[1], IF cur[2] = h - 1 THEN h - 1 ELSE cur[2] + 1>>

CursorInField ==
    main_pc \in {"render", "read", "handle"} =>
        /\ 0 <= cursor[1] /\ cursor[1] < size[2]
        /\ 0 <= cursor[2] /\ cursor[2] < size[1]

C9_CursorInBounds ==
    /\ []CursorInField
    /\ [][\A d \in Directions :
            (main_pc = "read" /\ event' = d)
                => cursor' = ClampedMove(d, cursor, size[2], size[1])]_vars

\* On a field of one column the right arrow was pressed in the second row.
C9_Witness ==
    /\ size = <<2, 1>>
    /\ main_pc = "render"
    /\ event = "Right"
    /\ cursor = <<0, 1>>

(***************************************************************************)
(* C10: a bordered panel around a panel of height h, painted into a buffer *)
(* of n rows, returns the rows after its own: n - (h + 2) rows when        *)
(* n > h + 2 and none otherwise, and no row of the returned slice was      *)
(* written by the panel.                                                   *)
(***************************************************************************)
C10_ReturnsRemainder ==
    panel # "none" =>
        LET n == Len(buffer)
            h == InnerHeight(panel, board)
        IN  /\ n - remainder = (IF n > h + 2 THEN n - (h + 2) ELSE 0)
            /\ \A i \in (remainder + 1)..n : buffer[i] = prefill

(***************************************************************************)
(* C11: a bordered panel around a w x h panel has width w + 2 and height   *)
(* h + 2; painted into n rows it indexes and slices inside the buffer      *)
(* only, row 0 gets the top border, each of the rows 1..min(n-1, h) gets   *)
(* one side character on each side of the inner content, and the bottom    *)
(* border is written exactly when n >= h + 2.                              *)
(***************************************************************************)
\* The w x h of the panel inside, from the field's size and the controls' text.
PanelW == IF panel = "Field" THEN size[2] ELSE 4

PanelH == IF panel = "Field" THEN size[1] ELSE 1

\* Row i (from 1) of the panel inside, as painted.
PanelRow(i) ==
    IF panel = "Field"
    THEN [c \in 1..size[2] |-> "block"]
    ELSE <<"t", "e", "s", "t">>

C11_BorderPainting ==
    panel # "none" =>
        LET n == Len(buffer)
            w == PanelW
            h == PanelH
            top == <<"top_left">> \o [i \in 1..w |-> "horizontal"] \o <<"top_right">>
            bottom == <<"bottom_left">> \o [i \in 1..w |-> "horizontal"] \o <<"bottom_right">>
        IN  /\ BoxedWidth(panel, board) = w + 2
            /\ BoxedHeight(panel, board) = h + 2
            /\ \A i \in BoxedIndexed(n, InnerHeight(panel, board)) : i < n
            /\ \A sl \in BoxedSliced(n, InnerHeight(panel, board)) :
                  sl[1] <= sl[2] /\ sl[2] <= n
            /\ n >= 1 => buffer[1] = prefill \o top
            /\ \A i \in 1..Min(n - 1, h) :
                  buffer[i + 1] = prefill \o <<"vertical">> \o PanelRow(i) \o <<"vertical">>
            /\ n >= h + 2 => buffer[h + 2] = prefill \o bottom
            /\ \A i \in 1..n :
                  (\E j \in 1..Len(buffer[i]) : buffer[i][j] = "bottom_left")
                      <=> (i = h + 2)
            /\ \A i \in (h + 3)..n : buffer[i] = prefill

\* A field of three rows in a buffer of three rows that held text: the third
\* row of the field and the bottom border are cut off.
C11_Witness ==
    /\ panel = "Field"
    /\ size = <<3, 2>>
    /\ Len(buffer) = 3
    /\ prefill # <<>>
    /\ buffer[3] = prefill \o <<"vertical", "block", "block", "vertical">>

(***************************************************************************)
(* C12: while the session runs, game_ended is true exactly when a reveal   *)
(* has reported a detonation, which is exactly when some cell is Exploded; *)
(* it starts false, only such a reveal sets it, and no later event resets  *)
(* it.                                                                     *)
(***************************************************************************)
\* The session exists: main is between Game::new and the drop of the Game.
Running == main_pc \in {"render", "read", "handle"}

EndedIffExploded ==
    Running => (game_ended <=> \E p \in Cells(board) : At(board, p).state = "Exploded")

C12_EndedIffDetonated ==
    /\ [](main_pc = "field" => ~game_ended)
    /\ []EndedIffExploded
    /\ [][ Running' =>
             /\ (Running /\ game_ended) => game_ended'
             /\ (~game_ended /\ game_ended')
                   => (event' = "Space" /\ op' = "clear_cell" /\ result' = "Some(true)")
             /\ (main_pc = "read" /\ event' = "Space" /\ result' = "Some(true)")
                   => game_ended' ]_vars

\* After the detonation a reveal of a numbered cell was handled: still ended.
C12_Witness ==
    /\ main_pc = "render"
    /\ game_ended
    /\ event = "Space"
    /\ result = "Some(false)"
    /\ \E p \in Cells(board) : At(board, p).state = "Exploded"

(***************************************************************************)
(* C13: when the process has ended and the alternate screen had been       *)
(* entered, leaving it was attempted exactly once, whatever the exit path. *)
(***************************************************************************)
\* EnterAlternateScreen succeeded: the screen is still on, or a Game existed to
\* attempt the leave.
Entered == alt_screen \/ leaves > 0

C13_LeavePaired ==
    main_pc \in {"exit", "panic"} => (Entered => leaves = 1)

(***************************************************************************)
(* C14: an invalid operation is signalled and changes nothing: clear_cell  *)
(* and toggle_flag outside the field return None, clear_cell on a Flagged  *)
(* cell returns None, toggle_flag on a Revealed, Exploded or Empty cell    *)
(* returns Some(false); the call returns at once and the board is the      *)
(* board from before the call.                                             *)
(***************************************************************************)
\* The last call's position lies outside the rows x cols field.
OutOfBounds == pos[1] >= size[1] \/ pos[2] >= size[2]

C14_InvalidIsNoOp ==
    op # "none" =>
        /\ OutOfBounds
              => (result = "None" /\ board = pre /\ pc = "ready" /\ check = <<>>)
        /\ (op = "clear_cell" /\ ~OutOfBounds /\ At(pre, pos).state = "Flagged")
              => (result = "None" /\ board = pre /\ pc = "ready" /\ check = <<>>)
        /\ (op = "toggle_flag" /\ ~OutOfBounds
                /\ At(pre, pos).state \in {"Revealed", "Exploded", "Empty"})
              => (result = "Some(false)" /\ board = pre /\ pc = "ready" /\ check = <<>>)

\* toggle_flag one column past the last, in an existing row, of a field on which
\* a cell has been revealed.
C14_Witness ==
    /\ op = "toggle_flag"
    /\ pos[1] < size[1]
    /\ pos[2] = size[2]
    /\ result = "None"
    /\ \E p \in Cells(board) : At(board, p).state = "Revealed"

(***************************************************************************)
(* C15: once the field is generated, no step changes a cell's mine or      *)
(* neighbors, and a step changes a cell's state only along                 *)
(* Unrevealed -> Flagged, Revealed, Exploded or Empty and                  *)
(* Flagged -> Unrevealed; Revealed, Exploded and Empty cells stay.         *)
(***************************************************************************)
\* The transition table of a cell's state.
Allowed(from, to) ==
    \/ from = "Unrevealed" /\ to \in {"Flagged", "Revealed", "Exploded", "Empty"}
    \/ from = "Flagged" /\ to = "Unrevealed"

\* A step of a generated field keeps to the table.
KeepsToTable ==
    (pc \in {"ready", "cascade"} /\ board' # board) =>
        /\ DOMAIN board' = DOMAIN board
        /\ \A r \in DOMAIN board :
              /\ DOMAIN board'[r] = DOMAIN board[r]
              /\ \A c \in DOMAIN board[r] :
                    /\ board'[r][c].mine = board[r][c].mine
                    /\ board'[r][c].neighbors = board[r][c].neighbors
                    /\ \/ board'[r][c].state = board[r][c].state
                       \/ Allowed(board[r][c].state, board'[r][c].state)

C15_TransitionTable == [][KeepsToTable]_vars

\* A cascade is making cells Empty and Revealed on a field where a mine had
\* exploded and a cell is Flagged.
C15_Witness ==
    /\ op = "clear_cell"
    /\ pc = "cascade"
    /\ \E p, q, x, f \in Cells(board) :
          /\ At(pre, p).state = "Unrevealed" /\ At(board, p).state = "Empty"
          /\ At(pre, q).state = "Unrevealed" /\ At(board, q).state = "Revealed"
          /\ At(pre, x).state = "Exploded" /\ At(board, x).state = "Exploded"
          /\ At(pre, f).state = "Flagged" /\ At(board, f).state = "Flagged"

(***************************************************************************)
(* C16: clear_cell on an Unrevealed cell without a mine and with count 0   *)
(* makes Empty exactly the cells of Z, the least set holding the target    *)
(* and every Unrevealed zero-count cell adjacent to a member of Z, makes   *)
(* Revealed exactly the Unrevealed cells of nonzero count adjacent to a    *)
(* member of Z, and leaves every other cell as it was.                     *)
(***************************************************************************)
\* Z with the Unrevealed zero-count cells of b adjacent to it.
Grow(b, Z) ==
    Z \cup {q \in Cells(b) :
              /\ At(b, q).state = "Unrevealed"
              /\ At(b, q).neighbors = 0
              /\ \E z \in Z : q \in Neighbours8(b, z)}

RECURSIVE Closure(_, _)
Closure(b, Z) == IF Grow(b, Z) = Z THEN Z ELSE Closure(b, Grow(b, Z))

\* The Unrevealed cells of nonzero count adjacent to a member of Z.
Border(b, Z) ==
    {q \in Cells(b) :
        /\ At(b, q).state = "Unrevealed"
        /\ At(b, q).neighbors # 0
        /\ \E z \in Z : q \in Neighbours8(b, z)}

\* The last call was a finished clear_cell that started a cascade.
Cascaded ==
    /\ ClearedUnrevealed
    /\ pc = "ready"
    /\ ~At(pre, pos).mine
    /\ At(pre, pos).neighbors = 0

C16_FloodFillClosure ==
    Cascaded =>
        LET Z == Closure(pre, {pos})
            B == Border(pre, Z)
        IN  \A q \in Cells(pre) :
                At(board, q) =
                    IF q \in Z THEN [At(pre, q) EXCEPT !.state = "Empty"]
                    ELSE IF q \in B THEN [At(pre, q) EXCEPT !.state = "Revealed"]
                    ELSE At(pre, q)

\* A cascade over two cells and more that revealed a numbered cell and passed a
\* Flagged cell beside it.
C16_Witness ==
    /\ Cascaded
    /\ Cardinality(Closure(pre, {pos})) >= 2
    /\ Border(pre, Closure(pre, {pos})) # {}
    /\ \E f \in Cells(pre) :
          /\ At(pre, f).state = "Flagged"
          /\ At(board, f).state = "Flagged"
          /\ \E z \in Closure(pre, {pos}) : f \in Neighbours8(pre, z)

(***************************************************************************)
(* C17, as claimed: every position clear_cell pushes refers to a cell that *)
(* is Unrevealed at the moment of the push.                                *)
(***************************************************************************)
\* The number of entries of the stack that a step keeps: all but the popped top.
Kept == IF check = <<>> THEN 0 ELSE Len(check) - 1

\* The positions a step pushes.
Pushed == {check'[i] : i \in (Kept + 1)..Len(check')}

\* The cells a step makes Empty.
TurnedEmpty ==
    {q \in Cells(board) : At(board, q).state # "Empty" /\ At(board', q).state = "Empty"}

PushesOnlyUnrevealed ==
    check' # check => \A q \in Pushed : At(board', q).state = "Unrevealed"

C17_AsClaimed == [][PushesOnlyUnrevealed]_vars

(***************************************************************************)
(* C17, amended: a step of clear_cell pushes exactly the in-bounds         *)
(* 8-neighbours of the cell it has just made Empty, each once and whatever *)
(* its state, and pushes nothing when it made no cell Empty; the entries   *)
(* below the popped top stay.                                              *)
(***************************************************************************)
PushesNeighboursOfEmpty ==
    check' # check =>
        /\ Cardinality(TurnedEmpty) <= 1
        /\ Pushed = UNION {Neighbours8(board, q) : q \in TurnedEmpty}
        /\ Len(check') - Kept = Cardinality(Pushed)
        /\ SubSeq(check', 1, Kept) = SubSeq(check, 1, Kept)
        /\ TurnedEmpty = {} => board' = board \/ Cardinality(Changed(board, board')) = 1

C17_PushesNeighbours == [][PushesNeighboursOfEmpty]_vars

\* The stack holds the target of the call, which is Empty, and a Flagged cell.
C17_Witness ==
    /\ pc = "cascade"
    /\ \E i \in DOMAIN check : check[i] = pos /\ At(board, pos).state = "Empty"
    /\ \E j \in DOMAIN check : At(board, check[j]).state = "Flagged"

(***************************************************************************)
(* C18: in a frame the bordered controls are painted into rows below the   *)
(* rows of the bordered field only, for every terminal height: the slice   *)
(* handed to the controls starts after the field panel's rows, and no row  *)
(* holds the border characters of two panels.                              *)
(***************************************************************************)
\* The number of corner and side characters in a row.
RECURSIVE EdgeGlyphs(_)
EdgeGlyphs(row) ==
    IF row = <<>>
    THEN 0
    ELSE (IF Head(row) \in {"top_left", "top_right", "vertical", "bottom_left", "bottom_right"}
          THEN 1 ELSE 0) + EdgeGlyphs(Tail(row))

C18_PanelsStacked ==
    panel = "Frame" =>
        LET n == Len(buffer)
            used == Min(n, size[1] + 2)
        IN  /\ remainder >= used
            /\ \A i \in 1..n : EdgeGlyphs(buffer[i]) <= 2

(***************************************************************************)
(* C19: the loop of main alternates one event and one redraw: an event is  *)
(* read only after a redraw, an event other than q is handled by one       *)
(* operation (a cursor step, one clear_cell, one toggle_flag, a new        *)
(* terminal size, or nothing) and followed by a redraw, q ends the loop    *)
(* without a change, other keys and events change nothing and a resize     *)
(* changes terminal_size only.                                             *)
(***************************************************************************)
\* The fields of the Game and its Field.
gameState == <<board, cursor, terminal_size, game_ended, closed>>

Alternates ==
    /\ main_pc = "field" => main_pc' \in {"field", "render", "panic"}
    /\ main_pc = "render" => (main_pc' \in {"read", "panic"} /\ (main_pc' = "read" => gameState' = gameState))
    /\ main_pc = "handle" =>
          /\ main_pc' \in {"handle", "render"}
          /\ op' = op /\ pos' = pos /\ event' = event
          /\ UNCHANGED <<cursor, terminal_size, game_ended, closed>>
    /\ main_pc = "quit" => main_pc' \in {"exit", "panic"}
    /\ main_pc = "read" =>
          /\ main_pc' \in {"render", "handle", "quit", "panic"}
          /\ main_pc' = "handle" => event' = "Space"
          /\ main_pc' = "quit" <=> event' = "q"
          /\ event' = "q" => gameState' = gameState
          /\ event' \in {"other_key", "other_event"} => gameState' = gameState
          /\ event' = "Resize" => UNCHANGED <<board, cursor, game_ended, closed>>
          /\ event' \in Directions => UNCHANGED <<board, terminal_size, game_ended, closed>>
          /\ event' = "f" =>
                /\ UNCHANGED <<cursor, terminal_size, game_ended, closed>>
                /\ op' = "toggle_flag"
          /\ event' = "Space" =>
                /\ UNCHANGED <<cursor, terminal_size, closed>>
                /\ op' = "clear_cell"
    /\ main_pc \in {"exit", "panic"} => main_pc' = main_pc

C19_LoopAlternates == [][Alternates]_vars

\* q is read after a cursor step, a flag and their redraws: the state is kept.
C19_Witness ==
    /\ main_pc = "quit"
    /\ event = "q"
    /\ op = "toggle_flag"
    /\ cursor # <<0, 0>>
    /\ \E p \in Cells(board) : At(board, p).state = "Flagged"

(***************************************************************************)
(* C20: the space and f keys call clear_cell and toggle_flag with          *)
(* (row, col) = (cursor.y, cursor.x), which lies inside the rows x cols    *)
(* field, so the call never returns None for a position outside it.        *)
(***************************************************************************)
C20_AddressesInsideField ==
    (main_pc \in {"render", "handle"} /\ event \in {"Space", "f"}) =>
        /\ op = (IF event = "Space" THEN "clear_cell" ELSE "toggle_flag")
        /\ pos = <<cursor[2], cursor[1]>>
        /\ pos[1] < size[1]
        /\ pos[2] < size[2]
        /\ pos \in Cells(pre)
        /\ event = "f" => result # "None"
        /\ (event = "Space" /\ At(pre, pos).state = "Unrevealed") => result # "None"

\* A flag set in the last column of a field of one row and three columns.
C20_Witness ==
    /\ main_pc = "render"
    /\ event = "f"
    /\ size = <<1, 3>>
    /\ cursor = <<2, 0>>
    /\ pos = <<0, 2>>
    /\ result = "Some(true)"

====
